---- MODULE Spec2Model ----
(***************************************************************************)
(* Model of app.py: the Flask image-classification service built around    *)
(* the SpeciesNet classifier.                                              *)
(*                                                                         *)
(*  - process_speciesnet_output is a pure function: it is the operator of  *)
(*    the same name, checked under SpecNorm, whose Init draws the parsed   *)
(*    classifier output from a bounded set of JSON documents.              *)
(*  - classify_image / classify_image_raw / run_speciesnet_classification  *)
(*    are modelled under Spec as NumRequests concurrent workers sharing    *)
(*    the uploads directory and the system temp directory.  One step of a  *)
(*    worker is one access to the shared filesystem or to the child        *)
(*    process, together with the local computation that follows it.        *)
(*                                                                         *)
(* Encoding.  Python values of different types are records with the same   *)
(* fields and a "kind" tag.  Strings that the code inspects (filenames,    *)
(* the taxonomy label) are sequences of tokens, "." ";" "/" being tokens   *)
(* of their own.  Floats are integers (hundredths).                        *)
(***************************************************************************)
EXTENDS Integers, Sequences, FiniteSets, TLC

----------------------------------------------------------------------------
(* Bounds                                                                  *)

NumRequests == 2
MaxDets == 3
MaxRuns == 2

----------------------------------------------------------------------------
(* JSON values as the normalizer sees them                                 *)

JMissing == [kind |-> "missing", n |-> 0, s |-> <<>>]
JNull == [kind |-> "null", n |-> 0, s |-> <<>>]
JNum(x) == [kind |-> "num", n |-> x, s |-> <<>>]
JStr(t) == [kind |-> "str", n |-> 0, s |-> t]

\* A detection record: d.get('category'), d.get('conf', 0), d.get('bbox', ...)
Det(cat, conf, bbox) == [kind |-> "dict", category |-> cat, conf |-> conf, bbox |-> bbox]
\* A detections-list entry that is not a mapping (a bare number).
DetNotDict == [kind |-> "num", category |-> JMissing, conf |-> JMissing,
               bbox |-> [kind |-> "missing", items |-> <<>>]]
BBox(items) == [kind |-> "list", items |-> items]
BBoxMissing == [kind |-> "missing", items |-> <<>>]
BBoxNull == [kind |-> "null", items |-> <<>>]

DetList(items) == [kind |-> "list", items |-> items]
DetsMissing == [kind |-> "missing", items |-> <<>>]
DetsNull == [kind |-> "null", items |-> <<>>]

\* A prediction record.
Rec(dets, label, score) ==
    [kind |-> "dict", detections |-> dets, prediction |-> label, prediction_score |-> score]
RecNotDict == [kind |-> "str", detections |-> DetsMissing, prediction |-> JMissing,
               prediction_score |-> JMissing]

PredList(items) == [kind |-> "list", items |-> items]
PredsMissing == [kind |-> "missing", items |-> <<>>]
PredsNull == [kind |-> "null", items |-> <<>>]
\* 'predictions' holding a non-empty string: truthy, len() > 0, [0] is a str.
PredsStr == [kind |-> "str", items |-> <<>>]
\* 'predictions' holding a non-zero number: truthy, len() raises.
PredsNum == [kind |-> "num", items |-> <<>>]

\* The parsed document, json.load's result.
Doc(preds) == [kind |-> "dict", predictions |-> preds]
DocList == [kind |-> "list", predictions |-> PredsMissing]
NoDoc == [kind |-> "none", predictions |-> PredsMissing]

----------------------------------------------------------------------------
(* process_speciesnet_output                                               *)

\* The record returned at lines 86-98, 109-121 and 165-177.
AllNull ==
    [biologicalClass |-> JNull, order |-> JNull, family |-> JNull, genus |-> JNull,
     species |-> JNull, commonName |-> JNull, score |-> JNum(0),
     bboxX |-> JNull, bboxY |-> JNull, bboxWidth |-> JNull, bboxHeight |-> JNull]

\* str.split(';'): the fields between the separators, '' included.
Split(s) ==
    LET seps == { k \in 1..Len(s) : s[k] = ";" }
        n == Cardinality(seps)
        \* where the j-th separator stands; 0 and Len(s)+1 bound the string
        pos(j) == IF j = 0 THEN 0
                  ELSE IF j = n + 1 THEN Len(s) + 1
                  ELSE CHOOSE k \in seps : Cardinality({ m \in seps : m <= k }) = j
    IN  [j \in 1..(n + 1) |-> SubSeq(s, pos(j - 1) + 1, pos(j) - 1)]

\* The field under the length test len(taxonomy_parts) > i + 1.
TaxonomyFieldStrictLength(parts, i) ==
    IF Len(parts) > i + 1 /\ parts[i+1] # <<>> THEN JStr(parts[i+1]) ELSE JNull

\* The field one position to the left: taxonomy_parts[i-1].
TaxonomyFieldOffByOne(parts, i) ==
    IF Len(parts) > i /\ parts[i] # <<>> THEN JStr(parts[i]) ELSE JNull

\* taxonomy_parts[i] if len(taxonomy_parts) > i else None, then "x if x else None".
\* Python index i is position i+1 of the sequence.
TaxonomyField(parts, i) ==
    IF Len(parts) > i /\ parts[i+1] # <<>> THEN JStr(parts[i+1]) ELSE JNull

\* bbox[i] if len(bbox) > i else 0
BBoxComponent(bbox, i) ==
    IF Len(bbox) > i THEN JNum(bbox[i+1]) ELSE JNum(0)

\* d.get('category') == '1'
IsAnimal(d) == d.category = JStr(<<"1">>)

\* x.get('conf', 0), the key of max()
ConfKey(d) == IF d.conf.kind = "missing" THEN 0 ELSE d.conf.n

\* max() keeping the last of the elements with the largest key.
TopDetectionLast(ds) ==
    LET i == CHOOSE k \in 1..Len(ds) :
                 /\ \A j \in 1..Len(ds) : ConfKey(ds[j]) <= ConfKey(ds[k])
                 /\ \A j \in (k+1)..Len(ds) : ConfKey(ds[j]) < ConfKey(ds[k])
    IN  ds[i]

\* max(animal_detections, key=...): the first element with the largest key.
TopDetection(ds) ==
    LET i == CHOOSE k \in 1..Len(ds) :
                 /\ \A j \in 1..Len(ds) : ConfKey(ds[j]) <= ConfKey(ds[k])
                 /\ \A j \in 1..(k-1) : ConfKey(ds[j]) < ConfKey(ds[k])
    IN  ds[i]

\* max() compares keys only when there are two or more elements; a None key
\* cannot be ordered against anything.
MaxRaises(ds) == Len(ds) >= 2 /\ \E j \in 1..Len(ds) : ds[j].conf.kind = "null"

Returned(v) == [raised |-> FALSE, value |-> v]
\* An exception leaving the try block: no record has been returned.
NoResult ==
    [biologicalClass |-> JMissing, order |-> JMissing, family |-> JMissing,
     genus |-> JMissing, species |-> JMissing, commonName |-> JMissing,
     score |-> JMissing, bboxX |-> JMissing, bboxY |-> JMissing,
     bboxWidth |-> JMissing, bboxHeight |-> JMissing]
Raised == [raised |-> TRUE, value |-> NoResult]

\* The response with the detection's confidence in the place of the score.
BuildResponseConfAsScore(prediction_data, animal_detections) ==
    LET label == prediction_data.prediction
        top_prediction == IF label.kind = "missing" THEN <<>> ELSE label.s
        prediction_score == IF prediction_data.prediction_score.kind = "missing"
                            THEN JNum(0) ELSE prediction_data.prediction_score
        top_detection == TopDetection(animal_detections)
        taxonomy_parts == Split(top_prediction)
        bboxv == top_detection.bbox
        bbox == IF bboxv.kind = "missing" THEN <<0, 0, 0, 0>> ELSE bboxv.items
    IN  IF MaxRaises(animal_detections) THEN Raised
        ELSE IF label.kind \notin {"missing", "str"} THEN Raised
        ELSE IF bboxv.kind \notin {"missing", "list"} THEN Raised
        ELSE Returned(
            [biologicalClass |-> TaxonomyField(taxonomy_parts, 1),
             order |-> TaxonomyField(taxonomy_parts, 2),
             family |-> TaxonomyField(taxonomy_parts, 3),
             genus |-> TaxonomyField(taxonomy_parts, 4),
             species |-> TaxonomyField(taxonomy_parts, 5),
             commonName |-> TaxonomyField(taxonomy_parts, 6),
             score |-> JNum(ConfKey(top_detection)),
             bboxX |-> BBoxComponent(bbox, 0),
             bboxY |-> BBoxComponent(bbox, 1),
             bboxWidth |-> BBoxComponent(bbox, 2),
             bboxHeight |-> BBoxComponent(bbox, 3)])

\* Lines 123-161, reached with at least one animal detection.
BuildResponse(prediction_data, animal_detections) ==
    LET label == prediction_data.prediction
        top_prediction == IF label.kind = "missing" THEN <<>> ELSE label.s
        prediction_score == IF prediction_data.prediction_score.kind = "missing"
                            THEN JNum(0) ELSE prediction_data.prediction_score
        top_detection == TopDetection(animal_detections)
        taxonomy_parts == Split(top_prediction)
        bboxv == top_detection.bbox
        bbox == IF bboxv.kind = "missing" THEN <<0, 0, 0, 0>> ELSE bboxv.items
    IN  IF MaxRaises(animal_detections) THEN Raised
        ELSE IF label.kind \notin {"missing", "str"} THEN Raised
        ELSE IF bboxv.kind \notin {"missing", "list"} THEN Raised
        ELSE Returned(
            [biologicalClass |-> TaxonomyField(taxonomy_parts, 1),
             order |-> TaxonomyField(taxonomy_parts, 2),
             family |-> TaxonomyField(taxonomy_parts, 3),
             genus |-> TaxonomyField(taxonomy_parts, 4),
             species |-> TaxonomyField(taxonomy_parts, 5),
             commonName |-> TaxonomyField(taxonomy_parts, 6),
             score |-> prediction_score,
             bboxX |-> BBoxComponent(bbox, 0),
             bboxY |-> BBoxComponent(bbox, 1),
             bboxWidth |-> BBoxComponent(bbox, 2),
             bboxHeight |-> BBoxComponent(bbox, 3)])

\* The filter of line 106 keeping every detection, whatever its category.
AnimalDetectionsAnyCategory(detections) == detections

\* Line 106: [d for d in detections if d.get('category') == '1']
AnimalDetections(detections) == SelectSeq(detections, IsAnimal)

\* The body of the try block, lines 84-161: either a returned record or an
\* exception on its way to the except clause.
NormalizeBody(raw_predictions) ==
    IF raw_predictions.kind # "dict" THEN Raised
    ELSE LET preds == raw_predictions.predictions IN
    IF preds.kind \in {"missing", "null"} THEN Returned(AllNull)
    ELSE IF preds.kind = "num" THEN Raised
    ELSE IF preds.kind = "list" /\ Len(preds.items) = 0 THEN Returned(AllNull)
    ELSE IF preds.kind = "str" THEN Raised
    ELSE LET prediction_data == preds.items[1] IN
    IF prediction_data.kind # "dict" THEN Raised
    ELSE LET dets == prediction_data.detections
             detections == IF dets.kind = "missing" THEN <<>> ELSE dets.items
         IN
    IF dets.kind = "null" THEN Raised
    ELSE IF \E i \in 1..Len(detections) : detections[i].kind # "dict" THEN Raised
    ELSE LET animal_detections == AnimalDetections(detections) IN
    IF Len(animal_detections) = 0 THEN Returned(AllNull)
    ELSE BuildResponse(prediction_data, animal_detections)

\* The function without its except clause: the exception leaves it.
process_speciesnet_output_uncaught(raw_predictions) ==
    NormalizeBody(raw_predictions).value

\* Lines 73-177: the try block with its catch-all except clause.
process_speciesnet_output(raw_predictions) ==
    LET r == NormalizeBody(raw_predictions)
    IN  IF r.raised THEN AllNull ELSE r.value

----------------------------------------------------------------------------
(* Upload validation                                                       *)

ALLOWED_EXTENSIONS == {"png", "jpg", "jpeg", "gif", "bmp", "tiff", "webp"}

\* str.lower() on the tokens that occur as extensions.
Lower(t) ==
    CASE t = "JPG" -> "jpg"
      [] t = "PNG" -> "png"
      [] t = "EXE" -> "exe"
      [] OTHER -> t

\* filename.rsplit('.', 1)[1]: what follows the last '.'.
Extension(filename) ==
    LET last == CHOOSE k \in 1..Len(filename) :
                    filename[k] = "." /\ \A j \in (k+1)..Len(filename) : filename[j] # "."
    IN  SubSeq(filename, last + 1, Len(filename))

\* The check accepting any filename that contains a '.'.
allowed_file_any_extension(filename) == \E i \in 1..Len(filename) : filename[i] = "."

\* Lines 68-71.  An extension of several tokens is no member of the allow-list.
allowed_file(filename) ==
    /\ \E i \in 1..Len(filename) : filename[i] = "."
    /\ LET ext == Extension(filename)
       IN  Len(ext) = 1 /\ Lower(ext[1]) \in ALLOWED_EXTENSIONS

RECURSIVE StripLeft(_, _)
StripLeft(s, chars) ==
    IF s # <<>> /\ Head(s) \in chars THEN StripLeft(Tail(s), chars) ELSE s

RECURSIVE StripRight(_, _)
StripRight(s, chars) ==
    IF s # <<>> /\ s[Len(s)] \in chars THEN StripRight(SubSeq(s, 1, Len(s) - 1), chars) ELSE s

\* "_".join(s.split()) on a string whose whitespace is the token " ".
RECURSIVE JoinWords(_)
JoinWords(s) ==
    IF s = <<>> THEN <<>>
    ELSE IF Head(s) = " "
         THEN LET rest == StripLeft(Tail(s), {" "})
              IN  IF rest = <<>> THEN <<>> ELSE <<"_">> \o JoinWords(rest)
         ELSE <<Head(s)>> \o JoinWords(Tail(s))

\* werkzeug's secure_filename: path separators become spaces, the words are
\* joined with "_", leading and trailing "." and "_" are stripped.
secure_filename(filename) ==
    LET spaced == [i \in 1..Len(filename) |-> IF filename[i] = "/" THEN " " ELSE filename[i]]
        joined == JoinWords(StripLeft(spaced, {" "}))
    IN  StripRight(StripLeft(joined, {".", "_"}), {".", "_"})

\* The filenames a request may declare.
Filenames ==
    { <<>>,
      <<"photo", ".", "jpg">>,
      <<"/", "photo", ".", "jpg">>,
      <<"cat", ".", "PNG">>,
      <<"photo", ".", "EXE">>,
      <<"photo">> }

\* The names under which an upload can be stored in UPLOAD_FOLDER.
StoreNames == { secure_filename(f) : f \in { g \in Filenames : allowed_file(g) } }

None == <<>>

----------------------------------------------------------------------------
(* Exceptions, files, responses                                            *)

NoExc == [type |-> "none", returncode |-> 0, stderr |-> ""]
Exc(t) == [type |-> t, returncode |-> 0, stderr |-> ""]
\* subprocess.CalledProcessError, raised by check=True on a non-zero exit.
CalledProcessError(rc, err) == [type |-> "CalledProcessError", returncode |-> rc, stderr |-> err]

\* The clause that lets a FileNotFoundError raised by os.remove through.
ExceptPermissionErrorOnly(t) == t = "PermissionError"

\* "except OSError" of lines 231, 322 and 370: the exception types it catches.
ExceptOSError(t) == t \in {"OSError", "FileNotFoundError", "PermissionError"}

\* A file of the temp directory: who wrote it, whether it is JSON text, and
\* the document that text denotes.
Absent == [exists |-> FALSE, writer |-> 0, json |-> FALSE, doc |-> NoDoc]
JsonFile(w, d) == [exists |-> TRUE, writer |-> w, json |-> TRUE, doc |-> d]
GarbageFile(w) == [exists |-> TRUE, writer |-> w, json |-> FALSE, doc |-> NoDoc]

\* A parser answering an empty list for text that is no JSON.
JsonLoadLenient(file) == [raised |-> FALSE, value |-> IF file.json THEN file.doc ELSE DocList]

\* json.load: the document of a JSON text; raises on anything else.
JsonLoad(file) ==
    IF file.json THEN [raised |-> FALSE, value |-> file.doc]
    ELSE [raised |-> TRUE, value |-> NoDoc]

LionLabel == <<"id", ";", "Mammalia", ";", "Carnivora", ";", "Felidae", ";",
               "Panthera", ";", "leo", ";", "Lion">>

\* Documents the classifier may leave at the output path.
DocNoPredictions == Doc(PredList(<<>>))
DocLion ==
    Doc(PredList(<<Rec(DetList(<<Det(JStr(<<"1">>), JNum(90), BBox(<<10, 20, 30, 40>>))>>),
                       JStr(LionLabel), JNum(97))>>))
\* A label and a score, but only a vehicle detection.
DocNoAnimal ==
    Doc(PredList(<<Rec(DetList(<<Det(JStr(<<"3">>), JNum(80), BBox(<<1, 2, 3, 4>>))>>),
                       JStr(LionLabel), JNum(55))>>))

\* What the child process may do before it exits: its exit code, its stderr
\* text and the file it leaves at the output path.  The classifier is a
\* black box, so every combination below can follow every input.
ChildOutcomes(r) ==
    { [returncode |-> 0, stderr |-> "", out |-> JsonFile(r, DocLion)],
      [returncode |-> 0, stderr |-> "", out |-> JsonFile(r, DocNoAnimal)],
      [returncode |-> 0, stderr |-> "", out |-> JsonFile(r, DocList)],
      [returncode |-> 0, stderr |-> "", out |-> GarbageFile(r)],
      [returncode |-> 0, stderr |-> "", out |-> Absent],
      [returncode |-> 1, stderr |-> "Traceback", out |-> Absent],
      [returncode |-> 2, stderr |-> "usage", out |-> GarbageFile(r)] }

NoResponse ==
    [status |-> 0, error |-> "", return_code |-> 0, stderr |-> "", filename |-> None,
     body |-> "none", clean |-> AllNull, raw |-> NoDoc]
ErrorResponse(st, err) == [NoResponse EXCEPT !.status = st, !.error = err, !.body = "error"]

\* str(e) of the exceptions the raw endpoint reports.
StrOfExc(e) ==
    CASE e.type = "CalledProcessError" /\ e.returncode = 1 -> "returned non-zero exit status 1"
      [] e.type = "CalledProcessError" /\ e.returncode = 2 -> "returned non-zero exit status 2"
      [] OTHER -> e.type

\* The except clauses of classify_image answering every failure with the
\* exit code 1 and no stderr text.
ClassifyFailureFixedCode(e) ==
    IF e.type = "FileNotFoundError"
    THEN ErrorResponse(500, "SpeciesNet not found")
    ELSE IF e.type = "CalledProcessError"
    THEN [ErrorResponse(500, "Model execution failed") EXCEPT !.return_code = 1]
    ELSE ErrorResponse(500, "Internal server error")

\* The except clauses of classify_image, lines 290-314, tried in order.
ClassifyFailure(e) ==
    IF e.type = "FileNotFoundError"
    THEN ErrorResponse(500, "SpeciesNet not found")
    ELSE IF e.type = "CalledProcessError"
    THEN [ErrorResponse(500, "Model execution failed")
             EXCEPT !.return_code = e.returncode, !.stderr = e.stderr]
    ELSE ErrorResponse(500, "Internal server error")

\* Line 285-288: the normalized body.
ClassifySuccess(raw_predictions) ==
    [NoResponse EXCEPT !.status = 200, !.body = "clean",
                       !.clean = process_speciesnet_output(raw_predictions)]

\* The except clause of classify_image_raw answering with a 400.
RawFailureBadRequest(e) == ErrorResponse(400, StrOfExc(e))

\* Lines 362-364: the single except clause of classify_image_raw.
RawFailure(e) == ErrorResponse(500, StrOfExc(e))

\* Line 360: the parsed output, as it is.
RawSuccess(raw_predictions) ==
    [NoResponse EXCEPT !.status = 200, !.body = "raw", !.raw = raw_predictions]

\* What the handler returns once run_speciesnet_classification (or file.save)
\* has returned or raised e.
HandlerResponse(ep, e, raw_predictions) ==
    IF ep = "/classify"
    THEN IF e.type = "none" THEN ClassifySuccess(raw_predictions) ELSE ClassifyFailure(e)
    ELSE IF e.type = "none" THEN RawSuccess(raw_predictions) ELSE RawFailure(e)

----------------------------------------------------------------------------
(* State                                                                   *)

Requests == 1..NumRequests
Endpoints == {"/classify", "/classify/raw"}
\* The output paths uuid4 can be asked for: one per request.
OutputPaths == 1..NumRequests

VARIABLES
    installed,          \* os.path.exists(cameratrapai_path), line 60
    uploads,            \* UPLOAD_FOLDER: stored name -> request whose bytes it holds, 0 = no file
    tmp,                \* tempfile.gettempdir(): output path -> file
    uuidCounter,        \* number of uuid4() values drawn so far
    pc,                 \* where each request's worker stands
    request,            \* request.files as the handler sees it, and the route
    temp_file_path,     \* local of the handlers, None until line 276 / 354
    temp_output_path,   \* local of run_speciesnet_classification, 0 until line 190
    exc,                \* the exception in flight in the worker, if any
    raw_predictions,    \* json.load's result, line 221
    response,           \* the handler's return value
    escaped,            \* the exception that left the handler, "none" if none did
    obs,                \* what each request did to the filesystem and the child
    nin,                \* argument of process_speciesnet_output (SpecNorm)
    nout                \* its results, one per run (SpecNorm)

vars == <<installed, uploads, tmp, uuidCounter, pc, request, temp_file_path,
          temp_output_path, exc, raw_predictions, response, escaped, obs, nin, nout>>

normVars == <<nin, nout>>
pipeVars == <<installed, uploads, tmp, uuidCounter, pc, request, temp_file_path,
              temp_output_path, exc, raw_predictions, response, escaped, obs>>

NoRequest == [endpoint |-> "", hasImage |-> FALSE, filename |-> None]

NoObs ==
    [saved |-> FALSE,          \* file.save wrote the upload
     invocations |-> 0,        \* calls of subprocess.run
     exitcode |-> -1,          \* the child's exit code, -1 while it has not exited
     exitstderr |-> "",        \* the child's stderr text
     childSaw |-> 0,           \* whose bytes the child found at the image path
     outRead |-> 0,            \* writer of the output file this request opened
     outKind |-> "none",       \* what that file held: "json" or "garbage"
     outDeleted |-> 0,         \* writer of the output file this request removed
     upDeleted |-> 0,          \* owner of the upload this request removed
     outDelError |-> "none",   \* the OSError caught (and logged) at line 231
     upDelError |-> "none"]    \* the OSError caught at line 322 / 370

PipeInit ==
    /\ installed \in BOOLEAN
    /\ uploads = [n \in StoreNames |-> 0]
    /\ tmp = [p \in OutputPaths |-> Absent]
    /\ uuidCounter = 0
    /\ pc = [r \in Requests |-> "idle"]
    /\ request = [r \in Requests |-> NoRequest]
    /\ temp_file_path = [r \in Requests |-> None]
    /\ temp_output_path = [r \in Requests |-> 0]
    /\ exc = [r \in Requests |-> NoExc]
    /\ raw_predictions = [r \in Requests |-> NoDoc]
    /\ response = [r \in Requests |-> NoResponse]
    /\ escaped = [r \in Requests |-> "none"]
    /\ obs = [r \in Requests |-> NoObs]

Init ==
    /\ PipeInit
    /\ nin = NoDoc
    /\ nout = <<>>

----------------------------------------------------------------------------
(* The request handlers                                                    *)

\* Line 190: uuid.uuid4().hex names a path no earlier call has named.
NewOutputPath(counter) == counter + 1

\* The child told to write a path that does not depend on the request.
PredictionsJsonShared(path) == 1

\* Line 201: the child is told to write the generated output path.
PredictionsJson(path) == path

\* A handler that cleans up only when the try block raised nothing.
HandlerFinallyOnSuccess(e) == IF e.type = "none" THEN "up_exists" ELSE "done"

\* Lines 316 and 366: the finally block follows the try block and every
\* except clause, whatever was raised.
HandlerFinally(e) == "up_exists"

\* os.remove leaving the file in place.
UnlinkNothing(dir, name, nofile) == dir

\* os.remove succeeding: the directory without the file.
Unlink(dir, name, nofile) == [dir EXCEPT ![name] = nofile]

\* Lines 249-276 and 339-354: the three validation checks, then the path.
Validate(r) ==
    /\ pc[r] = "idle"
    /\ \E ep \in Endpoints, has \in BOOLEAN, fn \in Filenames :
        /\ (~has => fn = None)
        /\ request' = [request EXCEPT ![r] = [endpoint |-> ep, hasImage |-> has, filename |-> fn]]
        /\ IF ~has
           THEN /\ response' = [response EXCEPT ![r] = ErrorResponse(400, "No image field in request")]
                /\ pc' = [pc EXCEPT ![r] = "done"]
                /\ UNCHANGED temp_file_path
           ELSE IF fn = <<>>
           THEN /\ response' = [response EXCEPT ![r] = ErrorResponse(400, "No file selected")]
                /\ pc' = [pc EXCEPT ![r] = "done"]
                /\ UNCHANGED temp_file_path
           ELSE IF ~allowed_file(fn)
           THEN /\ response' = [response EXCEPT ![r] =
                       [ErrorResponse(400, "Invalid file type")
                           EXCEPT !.filename = IF ep = "/classify" THEN fn ELSE None]]
                /\ pc' = [pc EXCEPT ![r] = "done"]
                /\ UNCHANGED temp_file_path
           ELSE /\ temp_file_path' = [temp_file_path EXCEPT ![r] = secure_filename(fn)]
                /\ pc' = [pc EXCEPT ![r] = "save"]
                /\ UNCHANGED response
    /\ UNCHANGED <<installed, uploads, tmp, uuidCounter, temp_output_path, exc,
                   raw_predictions, escaped, obs, normVars>>

\* Lines 277 and 355: file.save writes the upload, or raises.
Save(r) ==
    /\ pc[r] = "save"
    /\ \E outcome \in {"ok", "FileNotFoundError", "PermissionError"} :
        IF outcome = "ok"
        THEN /\ uploads' = [uploads EXCEPT ![temp_file_path[r]] = r]
             /\ obs' = [obs EXCEPT ![r].saved = TRUE]
             /\ pc' = [pc EXCEPT ![r] = "resolve"]
             /\ UNCHANGED <<exc, response>>
        ELSE /\ exc' = [exc EXCEPT ![r] = Exc(outcome)]
             /\ response' = [response EXCEPT ![r] =
                    HandlerResponse(request[r].endpoint, Exc(outcome), NoDoc)]
             /\ pc' = [pc EXCEPT ![r] = HandlerFinally(Exc(outcome))]
             /\ UNCHANGED <<uploads, obs>>
    /\ UNCHANGED <<installed, tmp, uuidCounter, request, temp_file_path, temp_output_path,
                   raw_predictions, escaped, normVars>>

\* Lines 190-194: the output path is generated, then get_cameratrapai_path
\* (lines 55-66) returns the installation directory or raises.
Resolve(r) ==
    /\ pc[r] = "resolve"
    /\ temp_output_path' = [temp_output_path EXCEPT ![r] = NewOutputPath(uuidCounter)]
    /\ uuidCounter' = uuidCounter + 1
    /\ IF installed
       THEN /\ pc' = [pc EXCEPT ![r] = "spawn"]
            /\ UNCHANGED exc
       ELSE /\ exc' = [exc EXCEPT ![r] = Exc("FileNotFoundError")]
            /\ pc' = [pc EXCEPT ![r] = "out_exists"]
    /\ UNCHANGED <<installed, uploads, tmp, request, temp_file_path, raw_predictions,
                   response, escaped, obs, normVars>>

\* Line 210: subprocess.run starts the child and blocks.
Spawn(r) ==
    /\ pc[r] = "spawn"
    /\ obs' = [obs EXCEPT ![r].invocations = @ + 1]
    /\ pc' = [pc EXCEPT ![r] = "wait"]
    /\ UNCHANGED <<installed, uploads, tmp, uuidCounter, request, temp_file_path,
                   temp_output_path, exc, raw_predictions, response, escaped, normVars>>

\* subprocess.run inside a loop that calls it again after a non-zero exit.
ChildExitRetry(r) ==
    /\ pc[r] = "wait"
    /\ \E o \in ChildOutcomes(r) :
        /\ tmp' = [tmp EXCEPT ![PredictionsJson(temp_output_path[r])] =
                                  IF o.out.exists THEN o.out ELSE @]
        /\ obs' = [obs EXCEPT ![r].childSaw = uploads[temp_file_path[r]],
                              ![r].exitcode = o.returncode,
                              ![r].exitstderr = o.stderr]
        /\ IF o.returncode # 0
           THEN /\ exc' = [exc EXCEPT ![r] = CalledProcessError(o.returncode, o.stderr)]
                /\ pc' = [pc EXCEPT ![r] = IF obs[r].invocations < 2 THEN "spawn" ELSE "out_exists"]
           ELSE /\ pc' = [pc EXCEPT ![r] = "read"]
                /\ UNCHANGED exc
    /\ UNCHANGED <<installed, uploads, uuidCounter, request, temp_file_path,
                   temp_output_path, raw_predictions, response, escaped, normVars>>

\* subprocess.run without check=True: the exit code is not looked at.
ChildExitUnchecked(r) ==
    /\ pc[r] = "wait"
    /\ \E o \in ChildOutcomes(r) :
        /\ tmp' = [tmp EXCEPT ![PredictionsJson(temp_output_path[r])] =
                                  IF o.out.exists THEN o.out ELSE @]
        /\ obs' = [obs EXCEPT ![r].childSaw = uploads[temp_file_path[r]],
                              ![r].exitcode = o.returncode,
                              ![r].exitstderr = o.stderr]
        /\ pc' = [pc EXCEPT ![r] = "read"]
        /\ UNCHANGED exc
    /\ UNCHANGED <<installed, uploads, uuidCounter, request, temp_file_path,
                   temp_output_path, raw_predictions, response, escaped, normVars>>

\* Lines 210-217: the child has read the image path, written (or not) the
\* output path and exited; check=True turns a non-zero exit into an exception.
ChildExit(r) ==
    /\ pc[r] = "wait"
    /\ \E o \in ChildOutcomes(r) :
        /\ tmp' = [tmp EXCEPT ![PredictionsJson(temp_output_path[r])] =
                                  IF o.out.exists THEN o.out ELSE @]
        /\ obs' = [obs EXCEPT ![r].childSaw = uploads[temp_file_path[r]],
                              ![r].exitcode = o.returncode,
                              ![r].exitstderr = o.stderr]
        /\ IF o.returncode # 0
           THEN /\ exc' = [exc EXCEPT ![r] = CalledProcessError(o.returncode, o.stderr)]
                /\ pc' = [pc EXCEPT ![r] = "out_exists"]
           ELSE /\ pc' = [pc EXCEPT ![r] = "read"]
                /\ UNCHANGED exc
    /\ UNCHANGED <<installed, uploads, uuidCounter, request, temp_file_path,
                   temp_output_path, raw_predictions, response, escaped, normVars>>

\* Lines 220-223: open the output path and parse it.
ReadOutput(r) ==
    /\ pc[r] = "read"
    /\ LET file == tmp[temp_output_path[r]]
           parsed == JsonLoad(file)
       IN  IF ~file.exists
           THEN /\ exc' = [exc EXCEPT ![r] = Exc("FileNotFoundError")]
                /\ UNCHANGED <<raw_predictions, obs>>
           ELSE /\ obs' = [obs EXCEPT ![r].outRead = file.writer,
                                     ![r].outKind = IF file.json THEN "json" ELSE "garbage"]
                /\ IF parsed.raised
                   THEN /\ exc' = [exc EXCEPT ![r] = Exc("JSONDecodeError")]
                        /\ UNCHANGED raw_predictions
                   ELSE /\ raw_predictions' = [raw_predictions EXCEPT ![r] = parsed.value]
                        /\ UNCHANGED exc
    /\ pc' = [pc EXCEPT ![r] = "out_exists"]
    /\ UNCHANGED <<installed, uploads, tmp, uuidCounter, request, temp_file_path,
                   temp_output_path, response, escaped, normVars>>

\* Line 227: os.path.exists(temp_output_path).  With no file the function is
\* left at once and the handler builds its response.
OutExists(r) ==
    /\ pc[r] = "out_exists"
    /\ IF tmp[temp_output_path[r]].exists
       THEN /\ pc' = [pc EXCEPT ![r] = "out_remove"]
            /\ UNCHANGED response
       ELSE /\ response' = [response EXCEPT ![r] =
                   HandlerResponse(request[r].endpoint, exc[r], raw_predictions[r])]
            /\ pc' = [pc EXCEPT ![r] = HandlerFinally(exc[r])]
    /\ UNCHANGED <<installed, uploads, tmp, uuidCounter, request, temp_file_path,
                   temp_output_path, exc, raw_predictions, escaped, obs, normVars>>

\* Lines 228-232: os.remove(temp_output_path) under "except OSError"; then
\* the function is left and the handler builds its response.
OutRemove(r) ==
    /\ pc[r] = "out_remove"
    /\ LET file == tmp[temp_output_path[r]] IN
       \E err \in (IF file.exists THEN {"none", "PermissionError"} ELSE {"FileNotFoundError"}) :
        /\ IF err = "none"
           THEN /\ tmp' = Unlink(tmp, temp_output_path[r], Absent)
                /\ obs' = [obs EXCEPT ![r].outDeleted = file.writer]
                /\ UNCHANGED exc
           ELSE IF ExceptOSError(err)
           THEN /\ obs' = [obs EXCEPT ![r].outDelError = err]
                /\ UNCHANGED <<tmp, exc>>
           ELSE /\ exc' = [exc EXCEPT ![r] = Exc(err)]
                /\ UNCHANGED <<tmp, obs>>
        /\ response' = [response EXCEPT ![r] =
               HandlerResponse(request[r].endpoint, exc'[r], raw_predictions[r])]
    /\ pc' = [pc EXCEPT ![r] = HandlerFinally(exc'[r])]
    /\ UNCHANGED <<installed, uploads, uuidCounter, request, temp_file_path,
                   temp_output_path, raw_predictions, escaped, normVars>>

\* Lines 318 and 367: temp_file_path and os.path.exists(temp_file_path).
\* With no file the handler returns.
UpExists(r) ==
    /\ pc[r] = "up_exists"
    /\ IF temp_file_path[r] # None /\ uploads[temp_file_path[r]] # 0
       THEN pc' = [pc EXCEPT ![r] = "up_remove"]
       ELSE pc' = [pc EXCEPT ![r] = "done"]
    /\ UNCHANGED <<installed, uploads, tmp, uuidCounter, request, temp_file_path,
                   temp_output_path, exc, raw_predictions, response, escaped, obs, normVars>>

\* Lines 319-323 and 368-371: os.remove(temp_file_path) under "except
\* OSError"; then the handler returns.  An exception leaving the finally
\* block replaces the return value.
UpRemove(r) ==
    /\ pc[r] = "up_remove"
    /\ LET owner == uploads[temp_file_path[r]] IN
       \E err \in (IF owner # 0 THEN {"none", "PermissionError"} ELSE {"FileNotFoundError"}) :
        IF err = "none"
        THEN /\ uploads' = Unlink(uploads, temp_file_path[r], 0)
             /\ obs' = [obs EXCEPT ![r].upDeleted = owner]
             /\ UNCHANGED <<response, escaped>>
        ELSE IF ExceptOSError(err)
        THEN /\ obs' = [obs EXCEPT ![r].upDelError = err]
             /\ UNCHANGED <<uploads, response, escaped>>
        ELSE /\ escaped' = [escaped EXCEPT ![r] = err]
             /\ response' = [response EXCEPT ![r] = NoResponse]
             /\ UNCHANGED <<uploads, obs>>
    /\ pc' = [pc EXCEPT ![r] = "done"]
    /\ UNCHANGED <<installed, tmp, uuidCounter, request, temp_file_path,
                   temp_output_path, exc, raw_predictions, normVars>>

Next ==
    \E r \in Requests :
        \/ Validate(r)
        \/ Save(r)
        \/ Resolve(r)
        \/ Spawn(r)
        \/ ChildExit(r)
        \/ ReadOutput(r)
        \/ OutExists(r)
        \/ OutRemove(r)
        \/ UpExists(r)
        \/ UpRemove(r)

Spec == Init /\ [][Next]_vars

----------------------------------------------------------------------------
(* process_speciesnet_output on its own                                    *)

ShortLabel == <<"id", ";", "Mammalia", ";", "Carnivora">>
\* "id;;Carnivora;;;;Lion": empty fields between the separators.
GappyLabel == <<"id", ";", ";", "Carnivora", ";", ";", ";", ";", "Lion">>

LabelMenu == {JStr(LionLabel), JStr(ShortLabel), JStr(GappyLabel), JStr(<<>>), JMissing, JNull}
ScoreMenu == {JNum(97), JNum(0), JMissing}

DetMenu ==
    { Det(JStr(<<"1">>), JNum(90), BBox(<<10, 20, 30, 40>>)),
      Det(JStr(<<"1">>), JNum(50), BBox(<<50, 60, 70, 80>>)),
      Det(JStr(<<"1">>), JNum(90), BBox(<<1, 2>>)),
      Det(JStr(<<"3">>), JNum(99), BBox(<<9, 9, 9, 9>>)),
      Det(JNum(1), JNum(95), BBox(<<7, 7, 7, 7>>)),
      Det(JStr(<<"1">>), JMissing, BBoxMissing),
      Det(JStr(<<"1">>), JNull, BBoxNull),
      DetNotDict }

\* Sequences over S of length at most n.
SeqsUpTo(S, n) == UNION { [1..k -> S] : k \in 0..n }

DetectionsMenu == { DetList(ds) : ds \in SeqsUpTo(DetMenu, MaxDets) } \cup {DetsMissing, DetsNull}

RecMenu ==
    { Rec(d, l, sc) : d \in DetectionsMenu, l \in LabelMenu, sc \in ScoreMenu } \cup {RecNotDict}

\* The documents handed to the normalizer: every record of RecMenu alone in
\* the list and ahead of a second record, the lists that are no lists, and
\* the document that is no mapping.
NormInputs ==
    { Doc(PredList(<<rec>>)) : rec \in RecMenu }
    \cup { Doc(PredList(<<rec, DocLion.predictions.items[1]>>)) : rec \in RecMenu }
    \cup { Doc(PredList(<<>>)), Doc(PredsMissing), Doc(PredsNull), Doc(PredsStr),
           Doc(PredsNum), DocList }

InitNorm ==
    /\ PipeInit
    /\ installed = TRUE
    /\ nin \in NormInputs
    /\ nout = <<>>

\* One call of process_speciesnet_output(nin).
RunNormalizer ==
    /\ Len(nout) < MaxRuns
    /\ nout' = Append(nout, process_speciesnet_output(nin))
    /\ UNCHANGED <<nin, pipeVars>>

NextNorm == RunNormalizer

SpecNorm == InitNorm /\ [][NextNorm]_vars

----------------------------------------------------------------------------
(* C10                                                                     *)

\* The raw output has zero prediction records.
ZeroRecords(doc) ==
    doc.kind = "dict" /\ doc.predictions.kind = "list" /\ Len(doc.predictions.items) = 0

\* The first prediction record has no detection whose category is "1".
FirstHasNoAnimal(doc) ==
    /\ doc.kind = "dict" /\ doc.predictions.kind = "list" /\ Len(doc.predictions.items) > 0
    /\ LET ds == doc.predictions.items[1].detections.items
       IN  \A i \in 1..Len(ds) :
               ~(ds[i].kind = "dict" /\ ds[i].category.kind = "str" /\ ds[i].category.s = <<"1">>)

\* C10: for a raw output with zero prediction records, or whose first record
\* has no category-"1" detection, every run of process_speciesnet_output
\* returns the all-null/zero-score record, whatever the record's label; a
\* second run on the same input returns the same record.
C10_NoDetectionIsAllNull ==
    (ZeroRecords(nin) \/ FirstHasNoAnimal(nin)) =>
        \A i \in 1..Len(nout) : nout[i] = AllNull

\* Two runs on a record that has a non-empty label and a score but only a
\* detection of another category.
C10_Witness ==
    /\ FirstHasNoAnimal(nin)
    /\ nin.predictions.items[1].kind = "dict"
    /\ nin.predictions.items[1].prediction = JStr(LionLabel)
    /\ nin.predictions.items[1].prediction_score = JNum(97)
    /\ nin.predictions.items[1].detections.items = <<Det(JStr(<<"3">>), JNum(99), BBox(<<9, 9, 9, 9>>))>>
    /\ Len(nout) = 2
    /\ nout[1] = nout[2]

----------------------------------------------------------------------------
(* C1                                                                      *)

\* No file of the uploads directory holds the bytes request r stored.
UploadGone(r) == \A n \in StoreNames : uploads[n] # r

\* C1: once a handler that stored its upload has returned, on whatever exit
\* path, and its delete did not fail, the stored upload exists no more: no
\* file holds its bytes, and at the step of the return no file is at its
\* path.  Once every request has returned with no failed delete, the uploads
\* directory is empty.
C1_UploadRemovedOnEveryPath ==
    /\ [](\A r \in Requests :
            (pc[r] = "done" /\ obs[r].saved /\ obs[r].upDelError = "none") => UploadGone(r))
    /\ []((\A r \in Requests : pc[r] = "done" /\ obs[r].upDelError = "none")
            => \A n \in StoreNames : uploads[n] = 0)
    /\ [][\A r \in Requests :
            (pc[r] # "done" /\ pc'[r] = "done" /\ obs'[r].saved /\ obs'[r].upDelError = "none")
                => uploads'[temp_file_path[r]] = 0]_vars

\* Both requests stored the same name, both have returned, one after a
\* failed classifier run and one after a parsed output, no delete failed.
C1_Witness ==
    /\ \A r \in Requests : pc[r] = "done" /\ obs[r].saved /\ obs[r].upDelError = "none"
    /\ temp_file_path[1] = temp_file_path[2]
    /\ \E r \in Requests : exc[r].type = "CalledProcessError"
    /\ \E r \in Requests : exc[r].type = "none" /\ response[r].status = 200
    /\ \A n \in StoreNames : uploads[n] = 0

----------------------------------------------------------------------------
(* C2                                                                      *)

\* Request r went to /classify and its child exited with a non-zero code.
ClassifierFailed(r) ==
    request[r].endpoint = "/classify" /\ obs[r].exitcode > 0 /\ pc[r] = "done"

\* The response is a 500 carrying the child's exit code and stderr text.
ReportsChildFailure(r) ==
    /\ response[r].status = 500
    /\ response[r].return_code = obs[r].exitcode
    /\ response[r].stderr = obs[r].exitstderr

\* C2 as stated: after a non-zero exit on /classify the response is a 500
\* with that exit code and stderr, and the input file exists no more.
C2_Original ==
    \A r \in Requests : ClassifierFailed(r) => ReportsChildFailure(r) /\ UploadGone(r)

\* C2, amended: after a non-zero exit on /classify the response is a 500
\* with that exit code and stderr, and the input file exists no more unless
\* its delete failed.
C2_FailureReportedAndCleaned ==
    \A r \in Requests :
        ClassifierFailed(r) =>
            /\ ReportsChildFailure(r)
            /\ obs[r].upDelError = "none" => UploadGone(r)

\* Exit code 2 with its stderr text reported, the upload removed by the request.
C2_Witness ==
    \E r \in Requests :
        /\ ClassifierFailed(r)
        /\ obs[r].exitcode = 2
        /\ response[r].stderr = "usage"
        /\ obs[r].upDeleted = r
        /\ UploadGone(r)

----------------------------------------------------------------------------
(* C3                                                                      *)

\* The filename ends in a '.' followed by one token of the allow-list,
\* case ignored.
ExtensionInAllowList(fn) ==
    /\ Len(fn) >= 2
    /\ fn[Len(fn) - 1] = "."
    /\ \E e \in ALLOWED_EXTENSIONS : Lower(fn[Len(fn)]) = e

\* Upload validation rejects the request: no 'image' field, an empty
\* filename, or an extension outside the allow-list.
RejectedByValidation(req) ==
    ~req.hasImage \/ req.filename = <<>> \/ ~ExtensionInAllowList(req.filename)

\* C3: a request rejected by validation is answered with 400 and creates no
\* artifact: nothing of it is written to the uploads directory, no output
\* path is generated and no classifier is started.
C3_RejectedBeforeAnyArtifact ==
    \A r \in Requests :
        (pc[r] # "idle" /\ RejectedByValidation(request[r])) =>
            /\ pc[r] = "done"
            /\ response[r].status = 400
            /\ ~obs[r].saved
            /\ temp_file_path[r] = None
            /\ UploadGone(r)
            /\ temp_output_path[r] = 0
            /\ obs[r].invocations = 0

\* photo.EXE is answered 400 while the upload of the other request is stored.
C3_Witness ==
    \E r \in Requests :
        /\ request[r].filename = <<"photo", ".", "EXE">>
        /\ response[r].status = 400
        /\ response[r].error = "Invalid file type"
        /\ \E q \in Requests : q # r /\ obs[q].saved /\ uploads[temp_file_path[q]] = q

----------------------------------------------------------------------------
(* C4                                                                      *)

\* Request r has stored its upload and run_speciesnet_classification has
\* neither returned nor raised yet.
Classifying(r) ==
    pc[r] \in {"resolve", "spawn", "wait", "read", "out_exists", "out_remove"}

\* C4: from the moment a request has stored its upload until its
\* classification completes or fails, the file exists and holds that
\* request's bytes, and the bytes its classifier read were its own.
C4_UploadExclusivelyOwned ==
    \A r \in Requests :
        Classifying(r) =>
            /\ uploads[temp_file_path[r]] = r
            /\ obs[r].exitcode # -1 => obs[r].childSaw = r

----------------------------------------------------------------------------
(* C5                                                                      *)

\* The output path of r is shared with no other request.
OutputPathUnshared(r) ==
    \A q \in Requests : q # r => temp_output_path[q] # temp_output_path[r]

\* C5: a request whose generated output path differs from every other
\* request's reads and deletes only the output file its own classifier
\* wrote, and its predictions are the document that classifier wrote.
C5_OwnOutputOnly ==
    \A r \in Requests :
        (temp_output_path[r] # 0 /\ OutputPathUnshared(r)) =>
            /\ obs[r].outRead \in {0, r}
            /\ obs[r].outDeleted \in {0, r}
            /\ \A q \in Requests :
                   (q # r /\ tmp[temp_output_path[r]].exists) =>
                       tmp[temp_output_path[r]].writer # q

\* Both requests are past their classifier, each has read and deleted its
\* own output file, and the two parsed different documents.
C5_Witness ==
    /\ \A r \in Requests : obs[r].outRead = r /\ obs[r].outDeleted = r
    /\ temp_output_path[1] # temp_output_path[2]
    /\ raw_predictions[1] = DocLion
    /\ raw_predictions[2] = DocNoAnimal
    /\ pc[1] = "out_remove" \/ pc[2] = "out_remove" \/ pc[1] = "up_exists"

----------------------------------------------------------------------------
(* C6                                                                      *)

\* run_speciesnet_classification was entered by r and has returned or raised.
ClassificationOver(r) ==
    temp_output_path[r] # 0 /\ pc[r] \in {"up_exists", "up_remove", "done"}

\* C6: after run_speciesnet_classification has returned or raised, the file
\* at the generated output path exists no more unless its delete failed; a
\* failed delete is logged and leaves the function's outcome what it was: the
\* CalledProcessError of a non-zero exit, the error of the open or the
\* parse, or the parsed document.
C6_OutputRemovedOnEveryPath ==
    \A r \in Requests :
        ClassificationOver(r) =>
            /\ obs[r].outDelError = "none" => ~tmp[temp_output_path[r]].exists
            /\ exc[r].type \in {"none", "FileNotFoundError", "CalledProcessError", "JSONDecodeError"}
            /\ obs[r].exitcode > 0 =>
                   exc[r] = CalledProcessError(obs[r].exitcode, obs[r].exitstderr)
            /\ obs[r].outKind = "garbage" /\ obs[r].exitcode = 0 => exc[r].type = "JSONDecodeError"
            /\ obs[r].outKind = "json" <=> (exc[r].type = "none" /\ raw_predictions[r] # NoDoc)

\* The child failed leaving a partial file, and that file has been removed.
C6_Witness ==
    \E r \in Requests :
        /\ ClassificationOver(r)
        /\ obs[r].exitcode = 2
        /\ obs[r].outDeleted = r
        /\ ~tmp[temp_output_path[r]].exists
        /\ \E q \in Requests :
               /\ ClassificationOver(q)
               /\ obs[q].outDelError = "PermissionError"
               /\ raw_predictions[q] = DocLion
               /\ response[q].status = 200

----------------------------------------------------------------------------
(* C7                                                                      *)

\* C7: no exception leaves a handler, and a handler that has returned has
\* returned one structured response with status 200, 400 or 500, also when
\* the cleanup itself failed.
C7_NothingEscapes ==
    \A r \in Requests :
        /\ escaped[r] = "none"
        /\ pc[r] = "done" =>
               /\ response[r].status \in {200, 400, 500}
               /\ response[r].body \in {"error", "clean", "raw"}
               /\ response[r].status = 200 <=> response[r].body \in {"clean", "raw"}
        /\ pc[r] \in {"idle", "save", "resolve", "spawn", "wait", "read", "out_exists", "out_remove"}
               => response[r] = NoResponse

\* The other request removed the file between this request's existence
\* check and its os.remove, and this request still answered 200.
C7_Witness ==
    \E r \in Requests :
        /\ pc[r] = "done"
        /\ obs[r].upDelError = "FileNotFoundError"
        /\ response[r].status = 200
        /\ \E q \in Requests : q # r /\ obs[q].upDeleted # 0

----------------------------------------------------------------------------
(* C8                                                                      *)

\* The document has the RawClassification structure: a mapping whose
\* 'predictions' is a list.
HasRawClassificationShape(doc) == doc.kind = "dict" /\ doc.predictions.kind = "list"

\* The child of r exited with 0 and left text that is no JSON.
OutputNotJson(r) == pc[r] = "done" /\ obs[r].exitcode = 0 /\ obs[r].outKind = "garbage"

\* The child of r exited with 0 and left JSON of another structure.
OutputWrongShape(r) ==
    /\ pc[r] = "done" /\ obs[r].exitcode = 0 /\ obs[r].outKind = "json"
    /\ ~HasRawClassificationShape(raw_predictions[r])

AbsorbedToAllNull(r) ==
    response[r].status = 200 /\ response[r].body = "clean" /\ response[r].clean = AllNull

\* C8 as stated: output that cannot be parsed as RawClassification is
\* absorbed to the all-null result on /classify and yields 500 on /classify/raw.
C8_Original ==
    \A r \in Requests :
        (OutputNotJson(r) \/ OutputWrongShape(r)) =>
            IF request[r].endpoint = "/classify"
            THEN AbsorbedToAllNull(r)
            ELSE response[r].status = 500

\* C8, amended: output that is no JSON yields a 500 on both endpoints, the
\* generic internal error on /classify; JSON of another structure is absorbed
\* to the all-null result on /classify and returned unchanged with 200 on
\* /classify/raw.
C8_UnparseableOutput ==
    \A r \in Requests :
        /\ OutputNotJson(r) =>
               /\ response[r].status = 500
               /\ request[r].endpoint = "/classify" => response[r].error = "Internal server error"
        /\ OutputWrongShape(r) =>
               IF request[r].endpoint = "/classify"
               THEN AbsorbedToAllNull(r)
               ELSE /\ response[r].status = 200
                    /\ response[r].body = "raw"
                    /\ response[r].raw = raw_predictions[r]

\* The four cases side by side: each endpoint with each kind of bad output.
C8_Witness ==
    \E r, q \in Requests :
        /\ request[r].endpoint = "/classify" /\ request[q].endpoint = "/classify/raw"
        /\ \/ OutputNotJson(r) /\ OutputWrongShape(q)
           \/ OutputWrongShape(r) /\ OutputNotJson(q)

----------------------------------------------------------------------------
(* C9                                                                      *)

\* Request r looked for the installation directory and did not find it.
InstallationNotLocated(r) == temp_output_path[r] # 0 /\ ~installed

\* C9: on /classify the installation-missing response is returned exactly
\* when the installation directory cannot be located: it is returned when the
\* lookup fails, and only when the directory is missing, no classifier having
\* been started; every other failure gets another response.
C9_NotFoundOnlyForMissingInstallation ==
    \A r \in Requests :
        (request[r].endpoint = "/classify" /\ pc[r] = "done") =>
            /\ InstallationNotLocated(r) => response[r].error = "SpeciesNet not found"
            /\ response[r].error = "SpeciesNet not found" => ~installed
            /\ response[r].error = "SpeciesNet not found" => obs[r].invocations = 0

----------------------------------------------------------------------------
(* C11                                                                     *)

\* The document has the types of the RawClassification structure: a mapping
\* with a non-empty list of records, the first a mapping whose detections
\* are mappings with a numeric (or no) confidence and a list (or no) bbox,
\* whose label is a string (or absent) and whose score a number (or absent).
WellTyped(doc) ==
    /\ doc.kind = "dict" /\ doc.predictions.kind = "list" /\ Len(doc.predictions.items) > 0
    /\ LET rec == doc.predictions.items[1] IN
        /\ rec.kind = "dict"
        /\ rec.detections.kind \in {"list", "missing"}
        /\ \A i \in 1..Len(rec.detections.items) :
              /\ rec.detections.items[i].kind = "dict"
              /\ rec.detections.items[i].conf.kind \in {"num", "missing"}
              /\ rec.detections.items[i].bbox.kind \in {"list", "missing"}
        /\ rec.prediction.kind \in {"str", "missing"}
        /\ rec.prediction_score.kind \in {"num", "missing"}

FirstRecord(doc) == doc.predictions.items[1]
FirstDetections(doc) == FirstRecord(doc).detections.items

\* Detection i of the first record has category "1".
Qualifies(doc, i) ==
    FirstDetections(doc)[i].category.kind = "str" /\ FirstDetections(doc)[i].category.s = <<"1">>

\* A well-typed document whose first record has a category-"1" detection.
HasQualifyingDetection(doc) ==
    WellTyped(doc) /\ \E i \in 1..Len(FirstDetections(doc)) : Qualifies(doc, i)

\* The confidence of detection i, 0 when it states none.
Confidence(doc, i) ==
    IF FirstDetections(doc)[i].conf.kind = "num" THEN FirstDetections(doc)[i].conf.n ELSE 0

\* Detection k is the first of the category-"1" detections of maximum confidence.
IsSelected(doc, k) ==
    /\ Qualifies(doc, k)
    /\ \A j \in 1..Len(FirstDetections(doc)) :
          Qualifies(doc, j) =>
              /\ Confidence(doc, j) <= Confidence(doc, k)
              /\ j < k => Confidence(doc, j) < Confidence(doc, k)

\* The four bbox components of a detection, a missing one being 0.
PaddedBBox(d) ==
    [i \in 1..4 |-> IF d.bbox.kind = "list" /\ i <= Len(d.bbox.items) THEN d.bbox.items[i] ELSE 0]

ResultBBox(res) == <<res.bboxX, res.bboxY, res.bboxWidth, res.bboxHeight>>

\* C11: when the first record has a category-"1" detection, the bbox of
\* the result is that of the category-"1" detection of maximum confidence,
\* the first of them when several share the maximum; a detection of another
\* category is never selected, however confident.
C11_SelectsFirstMostConfidentAnimal ==
    HasQualifyingDetection(nin) =>
        \A i \in 1..Len(nout) :
            \E k \in 1..Len(FirstDetections(nin)) :
                /\ IsSelected(nin, k)
                /\ ResultBBox(nout[i]) = [c \in 1..4 |-> JNum(PaddedBBox(FirstDetections(nin)[k])[c])]

\* A vehicle of confidence 99 ahead of two animals of confidence 90: the
\* bbox is the first animal's.
C11_Witness ==
    /\ HasQualifyingDetection(nin)
    /\ FirstDetections(nin) = << Det(JStr(<<"3">>), JNum(99), BBox(<<9, 9, 9, 9>>)),
                                 Det(JStr(<<"1">>), JNum(90), BBox(<<1, 2>>)),
                                 Det(JStr(<<"1">>), JNum(90), BBox(<<10, 20, 30, 40>>)) >>
    /\ Len(nout) >= 1
    /\ ResultBBox(nout[1]) = <<JNum(1), JNum(2), JNum(0), JNum(0)>>

----------------------------------------------------------------------------
(* C12                                                                     *)

\* The label of the first record as the string the code splits: '' when the
\* record has none.
LabelOf(doc) ==
    IF FirstRecord(doc).prediction.kind = "str" THEN FirstRecord(doc).prediction.s ELSE <<>>

\* The number of ';' among the first k tokens of s.
SeparatorsUpTo(s, k) == Cardinality({j \in 1..k : s[j] = ";"})

\* The label has a position i (counted from 0).
HasPosition(s, i) == SeparatorsUpTo(s, Len(s)) >= i

\* The tokens at position i of the label: those with exactly i separators
\* before them, the separators left out.
AtPosition(s, i) ==
    LET keep == {k \in 1..Len(s) : s[k] # ";" /\ SeparatorsUpTo(s, k) = i}
    IN  SelectSeq([k \in 1..Len(s) |-> IF k \in keep THEN s[k] ELSE ";"], LAMBDA t : t # ";")

\* What position i of the label gives a taxonomy field.
ExpectedField(s, i) ==
    IF HasPosition(s, i) /\ AtPosition(s, i) # <<>> THEN JStr(AtPosition(s, i)) ELSE JNull

TaxonomyOf(res) ==
    <<res.biologicalClass, res.order, res.family, res.genus, res.species, res.commonName>>

\* C12: when a qualifying detection exists, positions 1 to 6 of the label
\* split on ';' are, in order, biologicalClass, order, family, genus, species
\* and commonName; a position beyond the end of the split, or an empty one,
\* gives null; position 0 is in no field.
C12_LabelPositionsToFields ==
    HasQualifyingDetection(nin) =>
        \A i \in 1..Len(nout) :
            /\ \A f \in 1..6 : TaxonomyOf(nout[i])[f] = ExpectedField(LabelOf(nin), f)
            /\ AtPosition(LabelOf(nin), 0) # <<>> =>
                   \A f \in 1..6 : TaxonomyOf(nout[i])[f] # JStr(AtPosition(LabelOf(nin), 0))

\* "id;;Carnivora;;;;Lion": order and commonName are set, the empty
\* positions are null.
C12_Witness ==
    /\ HasQualifyingDetection(nin)
    /\ LabelOf(nin) = GappyLabel
    /\ Len(nout) >= 1
    /\ TaxonomyOf(nout[1]) = <<JNull, JStr(<<"Carnivora">>), JNull, JNull, JNull, JStr(<<"Lion">>)>>

----------------------------------------------------------------------------
(* C13                                                                     *)

AllTaxonomySet(res) == \A f \in 1..6 : TaxonomyOf(res)[f].kind # "null"
AllTaxonomyNull(res) == \A f \in 1..6 : TaxonomyOf(res)[f].kind = "null"

\* The number of fields of the label split on ';'.
FieldCount(s) == SeparatorsUpTo(s, Len(s)) + 1

\* C13 as stated: all six taxonomy fields are set, or all six are null with
\* a zero score, or the label has fewer than 7 fields and exactly the
\* positions beyond its end are null.
C13_Original ==
    \A i \in 1..Len(nout) :
        \/ AllTaxonomySet(nout[i])
        \/ AllTaxonomyNull(nout[i]) /\ nout[i].score = JNum(0)
        \/ /\ FieldCount(LabelOf(nin)) < 7
           /\ \A f \in 1..6 :
                  TaxonomyOf(nout[i])[f].kind = "null" <=> ~HasPosition(LabelOf(nin), f)

\* C13, amended: all six taxonomy fields are set, or all six are null with
\* a zero score, or exactly the positions beyond the end of the label and
\* the positions holding the empty string are null (the label having fewer
\* than 7 fields or empty fields).
C13_TaxonomyNullsFollowLabel ==
    \A i \in 1..Len(nout) :
        \/ AllTaxonomySet(nout[i])
        \/ AllTaxonomyNull(nout[i]) /\ nout[i].score = JNum(0)
        \/ /\ \/ FieldCount(LabelOf(nin)) < 7
              \/ \E f \in 1..6 : AtPosition(LabelOf(nin), f) = <<>>
           /\ \A f \in 1..6 :
                  TaxonomyOf(nout[i])[f].kind = "null" <=>
                      (~HasPosition(LabelOf(nin), f) \/ AtPosition(LabelOf(nin), f) = <<>>)

\* The 3-field label with score 97: class and order set, the four missing
\* trailing fields null.
C13_Witness ==
    /\ HasQualifyingDetection(nin)
    /\ LabelOf(nin) = ShortLabel
    /\ Len(nout) >= 1
    /\ nout[1].score = JNum(97)
    /\ TaxonomyOf(nout[1]) = <<JStr(<<"Mammalia">>), JStr(<<"Carnivora">>), JNull, JNull, JNull, JNull>>

----------------------------------------------------------------------------
(* C14                                                                     *)

\* A record as the function returns one: every field holds a value.
IsResult(res) ==
    /\ \A f \in 1..6 : TaxonomyOf(res)[f].kind \in {"null", "str"}
    /\ res.score.kind = "num"
    /\ \A c \in 1..4 : ResultBBox(res)[c].kind \in {"null", "num"}

\* The documents of a shape the body cannot work on, told from the document
\* alone: no mapping, 'predictions' a string or a number, a first record
\* that is no mapping, 'detections' null or holding a non-mapping, and, with
\* an animal detection present, a null label, a null confidence among two
\* or more animal detections, or a null bbox on the only animal detection.
AnimalIndices(doc) ==
    { i \in 1..Len(FirstDetections(doc)) : Qualifies(doc, i) }

WrongShape(doc) ==
    \/ doc.kind # "dict"
    \/ doc.predictions.kind \in {"str", "num"}
    \/ /\ doc.predictions.kind = "list"
       /\ Len(doc.predictions.items) > 0
       /\ \/ FirstRecord(doc).kind # "dict"
          \/ FirstRecord(doc).detections.kind = "null"
          \/ \E i \in 1..Len(FirstDetections(doc)) : FirstDetections(doc)[i].kind # "dict"
          \/ /\ AnimalIndices(doc) # {}
             /\ \/ FirstRecord(doc).prediction.kind = "null"
                \/ /\ Cardinality(AnimalIndices(doc)) >= 2
                   /\ \E i \in AnimalIndices(doc) : FirstDetections(doc)[i].conf.kind = "null"
                \/ /\ Cardinality(AnimalIndices(doc)) = 1
                   /\ \E i \in AnimalIndices(doc) : FirstDetections(doc)[i].bbox.kind = "null"

\* C14: for every input, the wrong shapes included, the function returns a
\* record, and for an input of a wrong shape that record is the all-null
\* result.
C14_Total ==
    \A i \in 1..Len(nout) :
        /\ IsResult(nout[i])
        /\ WrongShape(nin) => nout[i] = AllNull

\* A null label next to a qualifying detection: None.split raises, the
\* all-null record is returned.
C14_Witness ==
    /\ nin.kind = "dict"
    /\ nin.predictions.kind = "list"
    /\ Len(nin.predictions.items) > 0
    /\ FirstRecord(nin).kind = "dict"
    /\ FirstRecord(nin).prediction.kind = "null"
    /\ FirstRecord(nin).detections =
           DetList(<<Det(JStr(<<"1">>), JNum(90), BBox(<<10, 20, 30, 40>>))>>)
    /\ Len(nout) >= 1
    /\ nout[1] = AllNull

----------------------------------------------------------------------------
(* C17                                                                     *)

\* The first record's prediction_score, 0.0 when the record has none.
ExpectedScore(doc) ==
    IF FirstRecord(doc).prediction_score.kind = "missing"
    THEN JNum(0) ELSE FirstRecord(doc).prediction_score

\* C17: with a qualifying detection, the score of the result is the first
\* record's prediction_score (0.0 without one) and not the confidence of the
\* selected detection, and each of the four bbox fields is the component of
\* the selected detection at its position, 0 where the bbox has no such
\* component.
C17_ScoreAndBBoxSources ==
    HasQualifyingDetection(nin) =>
        \A i \in 1..Len(nout) :
            /\ nout[i].score = ExpectedScore(nin)
            /\ \E k \in 1..Len(FirstDetections(nin)) :
                  LET d == FirstDetections(nin)[k] IN
                  /\ IsSelected(nin, k)
                  /\ JNum(Confidence(nin, k)) # ExpectedScore(nin) =>
                         nout[i].score # JNum(Confidence(nin, k))
                  /\ \A c \in 1..4 :
                         ResultBBox(nout[i])[c] =
                             IF d.bbox.kind = "list" /\ Len(d.bbox.items) >= c
                             THEN JNum(d.bbox.items[c]) ELSE JNum(0)

\* A record without prediction_score whose only animal detection has
\* confidence 50: score 0 and the detection's own bbox.
C17_Witness ==
    /\ HasQualifyingDetection(nin)
    /\ FirstRecord(nin).prediction_score = JMissing
    /\ FirstDetections(nin) = <<Det(JStr(<<"1">>), JNum(50), BBox(<<50, 60, 70, 80>>))>>
    /\ Len(nout) >= 1
    /\ nout[1].score = JNum(0)
    /\ ResultBBox(nout[1]) = <<JNum(50), JNum(60), JNum(70), JNum(80)>>

----------------------------------------------------------------------------
(* C15                                                                     *)

\* Validation passed, the upload was stored and the installation was found,
\* and the worker is past the call of subprocess.run.
ReachedClassifier(r) ==
    /\ temp_file_path[r] # None
    /\ obs[r].saved
    /\ installed
    /\ pc[r] \notin {"resolve", "spawn"}

\* C15: a request calls the classifier at most once, and exactly once when
\* validation passed, the upload was stored and the installation was found;
\* a non-zero exit is answered with a 500 error response; and no step taken
\* after a non-zero exit calls the classifier again.
C15_ClassifierInvokedOnce ==
    /\ [](\A r \in Requests :
            /\ obs[r].invocations <= 1
            /\ ReachedClassifier(r) => obs[r].invocations = 1
            /\ (obs[r].exitcode > 0 /\ pc[r] = "done") =>
                   /\ response[r].status = 500
                   /\ response[r].body = "error"
                   /\ exc[r].type = "CalledProcessError"
                   /\ exc[r].returncode = obs[r].exitcode)
    /\ [][\A r \in Requests :
            obs[r].exitcode > 0 => obs'[r].invocations = obs[r].invocations]_vars

\* A request to /classify/raw whose child exited with code 1: one call,
\* a 500 response, the request has returned.
C15_Witness ==
    \E r \in Requests :
        /\ request[r].endpoint = "/classify/raw"
        /\ pc[r] = "done"
        /\ obs[r].exitcode = 1
        /\ obs[r].invocations = 1
        /\ response[r].status = 500

----------------------------------------------------------------------------
(* C16                                                                     *)

\* The steps of request r, told from what a transition changes.
StoresUpload(r) == ~obs[r].saved /\ obs'[r].saved
StartsClassifier(r) == obs'[r].invocations > obs[r].invocations
ReadsOutput(r) == obs[r].outRead = 0 /\ obs'[r].outRead # 0
Responds(r) == response[r] = NoResponse /\ response'[r] # NoResponse
DeletesOutput(r) == obs[r].outDeleted = 0 /\ obs'[r].outDeleted # 0
DeletesUpload(r) == obs[r].upDeleted = 0 /\ obs'[r].upDeleted # 0

\* C16: the steps of one request come in the order validate, store, invoke,
\* read output, normalize, respond.  The upload is stored after validation
\* passed and before any classifier call; the classifier is started only with
\* the upload stored and nothing read or answered yet; the output is read
\* only after the child exited with status 0; a normalized body is built
\* only from a document read from the output file, after the read; and the
\* request deletes its upload only after its output file has been deleted
\* (or no output file was left to delete), never the other way round.
C16_StepsInOrder ==
    /\ [](\A r \in Requests :
            /\ obs[r].invocations > 0 => obs[r].saved
            /\ obs[r].outRead # 0 => obs[r].exitcode = 0
            /\ (response[r].status = 200 /\ response[r].body = "clean") =>
                   /\ obs[r].outRead # 0
                   /\ obs[r].outKind = "json"
                   /\ raw_predictions[r] # NoDoc
                   /\ response[r].clean = process_speciesnet_output(raw_predictions[r]))
    /\ [][\A r \in Requests :
            /\ StoresUpload(r) =>
                   temp_file_path[r] # None /\ obs[r].invocations = 0
            /\ StartsClassifier(r) =>
                   obs[r].saved /\ obs[r].outRead = 0 /\ response[r] = NoResponse
            /\ ReadsOutput(r) =>
                   obs[r].exitcode = 0 /\ response[r] = NoResponse
            /\ (Responds(r) /\ response'[r].status = 200) =>
                   obs[r].outRead # 0 /\ ~ReadsOutput(r)
            /\ DeletesOutput(r) => obs[r].upDeleted = 0 /\ obs[r].upDelError = "none"
            /\ DeletesUpload(r) =>
                   /\ response[r] # NoResponse
                   /\ obs[r].outRead # 0 =>
                          obs[r].outDeleted # 0 \/ obs[r].outDelError # "none"]_vars

\* A request that stored, invoked, read, answered 200 with a normalized
\* body, deleted its own output and then its own upload.
C16_Witness ==
    \E r \in Requests :
        /\ pc[r] = "done"
        /\ obs[r].saved
        /\ obs[r].invocations = 1
        /\ obs[r].exitcode = 0
        /\ obs[r].outRead = r
        /\ response[r].status = 200
        /\ response[r].body = "clean"
        /\ obs[r].outDeleted = r
        /\ obs[r].upDeleted = r

----------------------------------------------------------------------------
(* C18                                                                     *)

\* The steps the worker thread of request r takes by itself, once the
\* request has arrived: every step of the handler but the child's exit.
WorkerStep(r) ==
    \/ Save(r)
    \/ Resolve(r)
    \/ Spawn(r)
    \/ ReadOutput(r)
    \/ OutExists(r)
    \/ OutRemove(r)
    \/ UpExists(r)
    \/ UpRemove(r)

\* The pipeline with a scheduler that lets every worker thread run, and with
\* the assumption that a started child exits.
SpecLive ==
    /\ Init
    /\ [][Next]_vars
    /\ \A r \in Requests : WF_vars(WorkerStep(r))
    /\ \A r \in Requests : WF_vars(ChildExit(r))

\* No file is at the output path generated for request r.
OutputFileGone(r) == temp_output_path[r] = 0 \/ ~tmp[temp_output_path[r]].exists

Answered(r) == pc[r] = "done" /\ response[r] # NoResponse

\* Request r has not arrived, or it has been answered, the bytes it stored
\* are in no file unless their delete failed, and no file is at its output
\* path unless its delete failed.
Settled(r) ==
    \/ pc[r] = "idle"
    \/ /\ Answered(r)
       /\ UploadGone(r) \/ obs[r].upDelError # "none"
       /\ OutputFileGone(r) \/ obs[r].outDelError # "none"

\* Under SpecLive, where a started child exits: from some point on every
\* request that arrived is answered and cleaned up after, a failed delete
\* excepted.
EventuallyAnsweredAndCleaned == <>[](\A r \in Requests : Settled(r))


\* The child of request r is running: subprocess.run has not returned.
ChildRunning(r) == pc[r] = "wait"

\* C18, its part that needs no assumption on the child: for as long as the
\* child of a request runs, the request has no response and the upload it
\* stored is still in the uploads directory.
C18_BlockedWithUploadWhileChildRuns ==
    \A r \in Requests :
        ChildRunning(r) =>
            /\ response[r] = NoResponse
            /\ uploads[temp_file_path[r]] # 0

----------------------------------------------------------------------------
(* C19                                                                     *)

\* What request r was given: the upload, and what the filesystem and the
\* classifier did to it.
Given(r) ==
    <<request[r].hasImage, request[r].filename, obs[r].saved, obs[r].exitcode,
      obs[r].exitstderr, obs[r].outRead # 0, obs[r].outKind, raw_predictions[r],
      obs[r].outDelError>>

\* The steps request r took: stored, invoked, read the output, removed it.
StepsTaken(r) ==
    <<temp_file_path[r] # None, obs[r].saved, obs[r].invocations, obs[r].outRead # 0,
      obs[r].outDeleted # 0>>

\* C19: a request to /classify and a request to /classify/raw that were
\* given the same upload, the same filesystem outcomes and the same
\* classifier behaviour took the same steps and return the same status code;
\* on 200 the raw body is the parsed document as it was read and the other
\* body is its normalization, otherwise both bodies are error bodies; and a
\* request of either endpoint that passed validation returns only through
\* the cleanup of its upload.
C19_RawAndNormalizedAgree ==
    /\ [](\A r1, r2 \in Requests :
            ( /\ pc[r1] = "done" /\ pc[r2] = "done"
              /\ request[r1].endpoint = "/classify"
              /\ request[r2].endpoint = "/classify/raw"
              /\ Given(r1) = Given(r2) ) =>
                /\ response[r1].status = response[r2].status
                /\ StepsTaken(r1) = StepsTaken(r2)
                /\ IF response[r2].status = 200
                   THEN /\ response[r2].body = "raw"
                        /\ response[r2].raw = raw_predictions[r2]
                        /\ raw_predictions[r2] # NoDoc
                        /\ response[r1].body = "clean"
                        /\ response[r1].clean = process_speciesnet_output(response[r2].raw)
                   ELSE /\ response[r1].body = "error"
                        /\ response[r2].body = "error")
    /\ [][\A r \in Requests :
            (pc[r] # "done" /\ pc'[r] = "done" /\ temp_file_path'[r] # None) =>
                pc[r] \in {"up_exists", "up_remove"}]_vars

\* Both endpoints given the same file and a child that exits with code 1:
\* two 500 responses after one invocation each.
C19_Witness ==
    \E r1, r2 \in Requests :
        /\ pc[r1] = "done" /\ pc[r2] = "done"
        /\ request[r1].endpoint = "/classify"
        /\ request[r2].endpoint = "/classify/raw"
        /\ Given(r1) = Given(r2)
        /\ obs[r1].exitcode = 1
        /\ obs[r1].invocations = 1 /\ obs[r2].invocations = 1
        /\ response[r1].status = 500 /\ response[r2].status = 500

====
